---- MODULE Spec2Model ----
(***************************************************************************)
(* Model of delta's line classifier (src/state_machine.rs) and painter     *)
(* (src/paint.rs).  Text is a sequence of tokens: a token is a character,  *)
(* a terminal escape code already present in the input, or a 24-bit        *)
(* background / foreground escape written by the painter.                  *)
(***************************************************************************)
EXTENDS Integers, Sequences, FiniteSets, TLC

VARIABLES state, syntax, minus_lines, plus_lines, output_buffer,
          sink, attempts, consumed, status, config, request

vars == <<state, syntax, minus_lines, plus_lines, output_buffer,
          sink, attempts, consumed, status, config, request>>

\* ---------------------------------------------------------------- bounds
MaxLines == 5

\* ---------------------------------------------------------------- tokens
NoRgb == <<0, 0, 0>>

Ch(c) == [k |-> "ch", c |-> c, rgb |-> NoRgb]

\* an escape code that is already in the input line, e.g. ESC[m
AnsiIn == [k |-> "esc", c |-> "", rgb |-> NoRgb]

\* "\x1b[48;2;{};{};{}m" of r, g, b
BgEscape(color) == [k |-> "bg", c |-> "", rgb |-> <<color.r, color.g, color.b>>]

\* "\x1b[38;2;{};{};{}m" of r, g, b
FgEscape(color) == [k |-> "fg", c |-> "", rgb |-> <<color.r, color.g, color.b>>]

Str(cs) == [i \in 1..Len(cs) |-> Ch(cs[i])]

NL == Ch("\n")

\* ---------------------------------------------------------------- colours
LIGHT_THEME_PLUS_COLOR == [r |-> 208, g |-> 255, b |-> 208, a |-> 255]

LIGHT_THEME_MINUS_COLOR == [r |-> 255, g |-> 208, b |-> 208, a |-> 255]

DARK_THEME_PLUS_COLOR == [r |-> 1, g |-> 59, b |-> 1, a |-> 255]

DARK_THEME_MINUS_COLOR == [r |-> 63, g |-> 0, b |-> 1, a |-> 255]

\* foreground of the style the theme gives a highlighted range
ThemeForeground == [r |-> 248, g |-> 248, b |-> 242, a |-> 255]

None == [some |-> FALSE, val |-> [r |-> 0, g |-> 0, b |-> 0, a |-> 0]]

Some(color) == [some |-> TRUE, val |-> color]

\* ---------------------------------------------------------------- strings
strip_ansi_codes(s) == SelectSeq(s, LAMBDA t : t.k = "ch")

starts_with(s, prefix) ==
    /\ Len(s) >= Len(prefix)
    /\ SubSeq(s, 1, Len(prefix)) = prefix

\* join that leaves the separator out
RECURSIVE join_no_separator(_)
join_no_separator(ls) ==
    IF ls = <<>> THEN <<>> ELSE ls[1] \o join_no_separator(Tail(ls))

RECURSIVE join(_)
join(ls) ==
    IF ls = <<>> THEN <<>>
    ELSE IF Len(ls) = 1 THEN ls[1]
    ELSE ls[1] \o <<NL>> \o join(Tail(ls))

\* the pieces of text, each with its line terminator when it has one
RECURSIVE LinesWithEndings(_)
LinesWithEndings(text) ==
    IF text = <<>> THEN <<>>
    ELSE LET nls == {i \in 1..Len(text) : text[i] = NL}
         IN IF nls = {} THEN <<text>>
            ELSE LET i == CHOOSE j \in nls : \A m \in nls : j <= m
                 IN <<SubSeq(text, 1, i)>>
                    \o LinesWithEndings(SubSeq(text, i + 1, Len(text)))

\* ---------------------------------------------------------------- syntaxes
NoSyntax == "None"

KnownExtensions == {<<"p", "y">>}

find_syntax_by_extension(ext) ==
    IF ext \in KnownExtensions THEN "Python" ELSE NoSyntax

NoExtension == [some |-> FALSE, val |-> <<>>]

\* the characters after the last '.' of the line, when it has one
get_file_extension_from_diff_line(line) ==
    LET dots == {i \in 1..Len(line) : line[i] = Ch(".")}
    IN IF dots = {} THEN NoExtension
       ELSE LET i == CHOOSE j \in dots : \A m \in dots : m <= j
            IN [some |-> TRUE,
                val |-> [n \in 1..(Len(line) - i) |-> line[i + n].c]]

\* painter.syntax = match get_file_extension_from_diff_line(&line) { ... }
resolve_syntax(line) ==
    LET extension == get_file_extension_from_diff_line(line)
    IN IF extension.some THEN find_syntax_by_extension(extension.val)
       ELSE NoSyntax

\* ---------------------------------------------------------------- painter
\* HighlightLines::highlight: ranges that cover the line, one per character
highlight(line) ==
    [i \in 1..Len(line) |-> [style |-> [foreground |-> ThemeForeground],
                             text |-> <<line[i]>>]]

paint(text, foreground_color, background_color, buf) ==
    LET b1 == IF background_color.some
              THEN Append(buf, BgEscape(background_color.val))
              ELSE buf
    IN IF foreground_color.some
       THEN Append(b1, FgEscape(foreground_color.val)) \o text
       ELSE b1 \o text

RECURSIVE paint_ranges(_, _, _, _)
paint_ranges(ranges, background_color, apply_syntax_highlighting, buf) ==
    IF ranges = <<>> THEN buf
    ELSE paint_ranges(Tail(ranges), background_color, apply_syntax_highlighting,
                      paint(ranges[1].text,
                            IF apply_syntax_highlighting
                            THEN Some(ranges[1].style.foreground)
                            ELSE None,
                            background_color, buf))

RECURSIVE paint_lines(_, _, _, _)
paint_lines(ls, background_color, apply_syntax_highlighting, buf) ==
    IF ls = <<>> THEN buf
    ELSE LET b1 == IF background_color.some
                   THEN Append(buf, BgEscape(background_color.val))
                   ELSE buf
         IN paint_lines(Tail(ls), background_color, apply_syntax_highlighting,
                        paint_ranges(highlight(ls[1]), None,
                                     apply_syntax_highlighting, b1))

paint_text(text, background_color, apply_syntax_highlighting, buf) ==
    paint_lines(LinesWithEndings(text), background_color,
                apply_syntax_highlighting, buf)

\* A painter value p is a record of the Painter's fields, the classifier
\* state, what the writer received, and res: "ok", "io_error" (a writeln
\* returned Err, propagated by ?) or "panic" (unwrap of an absent syntax).
\* fuel is the number of writes the sink still accepts.

writeln(p, bytes) ==
    IF p.fuel = 0
    THEN [p EXCEPT !.attempts = @ + 1, !.res = "io_error"]
    ELSE [p EXCEPT !.attempts = @ + 1, !.sink = Append(@, bytes),
                   !.fuel = @ - 1]

paint_and_emit_text(p, text, background_color, apply_syntax_highlighting) ==
    IF p.syntax = NoSyntax THEN [p EXCEPT !.res = "panic"]
    ELSE LET q == [p EXCEPT !.output_buffer =
                       paint_text(text, background_color,
                                  apply_syntax_highlighting, @)]
             w == writeln(q, q.output_buffer)
         IN IF w.res # "ok" THEN w
            ELSE [w EXCEPT !.output_buffer = <<>>]

\* is_empty looking at the removed lines only
is_empty_minus_only(p) == Len(p.minus_lines) = 0

is_empty(p) == Len(p.minus_lines) = 0 /\ Len(p.plus_lines) = 0

\* the flush leaving out the write of an empty block
paint_and_emit_buffered_lines_skipping_empty(p) ==
    IF is_empty(p) THEN p
    ELSE LET a == IF p.minus_lines = <<>> THEN p
                  ELSE paint_and_emit_text(p, join(p.minus_lines),
                                           Some(p.config.minus_color),
                                           p.config.highlight_removed)
         IN IF a.res # "ok" THEN a
            ELSE LET b == [a EXCEPT !.minus_lines = <<>>]
                     c == IF b.plus_lines = <<>> THEN b
                          ELSE paint_and_emit_text(b, join(b.plus_lines),
                                                   Some(b.config.plus_color),
                                                   TRUE)
                 IN IF c.res # "ok" THEN c
                    ELSE [c EXCEPT !.plus_lines = <<>>]

\* the flush with the result of the first write dropped instead of propagated
paint_and_emit_buffered_lines_ignoring_error(p) ==
    IF is_empty(p) THEN p
    ELSE LET a == paint_and_emit_text(p, join(p.minus_lines),
                                      Some(p.config.minus_color),
                                      p.config.highlight_removed)
             b == [a EXCEPT !.minus_lines = <<>>, !.res = "ok",
                            !.output_buffer = <<>>]
             c == paint_and_emit_text(b, join(b.plus_lines),
                                      Some(b.config.plus_color), TRUE)
         IN IF c.res # "ok" THEN c
            ELSE [c EXCEPT !.plus_lines = <<>>]

paint_and_emit_buffered_lines(p) ==
    IF is_empty(p) THEN p
    ELSE LET a == paint_and_emit_text(p, join(p.minus_lines),
                                      Some(p.config.minus_color),
                                      p.config.highlight_removed)
         IN IF a.res # "ok" THEN a
            ELSE LET b == [a EXCEPT !.minus_lines = <<>>]
                     c == paint_and_emit_text(b, join(b.plus_lines),
                                              Some(b.config.plus_color), TRUE)
                 IN IF c.res # "ok" THEN c
                    ELSE [c EXCEPT !.plus_lines = <<>>]

\* ---------------------------------------------------------------- classifier
HunkStates == {"HunkMeta", "HunkZero", "HunkMinus", "HunkPlus"}

States == {"Commit", "DiffMeta", "Unknown"} \cup HunkStates

DiffPrefix == Str(<<"d", "i", "f", "f", " ", "-", "-">>)

CommitPrefix == Str(<<"c", "o", "m", "m", "i", "t">>)

HunkPrefix == Str(<<"@", "@">>)

\* the pass-through write of the stripped copy instead of the original
emit_stripped(p, raw_line) ==
    IF p.res # "ok" THEN p ELSE writeln(p, strip_ansi_codes(raw_line))

\* writeln!(painter.writer, "{}", raw_line)?
emit_raw(p, raw_line) == IF p.res # "ok" THEN p ELSE writeln(p, raw_line)

\* the '-' arm without the flush in HunkPlus
minus_arm_no_flush(p, line) ==
    [p EXCEPT !.minus_lines = Append(@, line), !.state = "HunkMinus"]

\* Some('-') => ...
minus_arm(p, line) ==
    LET f == IF p.state = "HunkPlus"
             THEN paint_and_emit_buffered_lines(p) ELSE p
    IN IF f.res # "ok" THEN f
       ELSE [f EXCEPT !.minus_lines = Append(@, line), !.state = "HunkMinus"]

\* the '+' arm flushing a pending removed run, as the '-' arm does for '+'
plus_arm_flushing(p, line) ==
    LET f == IF p.state = "HunkMinus"
             THEN paint_and_emit_buffered_lines(p) ELSE p
    IN IF f.res # "ok" THEN f
       ELSE [f EXCEPT !.plus_lines = Append(@, line), !.state = "HunkPlus"]

\* Some('+') => ...
plus_arm(p, line) ==
    [p EXCEPT !.plus_lines = Append(@, line), !.state = "HunkPlus"]

\* the context arm without its flush
context_arm_no_flush(p, line) ==
    paint_and_emit_text([p EXCEPT !.state = "HunkZero"], line, None, TRUE)

\* the context arm painting its line before the flush
context_arm_paint_first(p, line) ==
    LET f == paint_and_emit_text([p EXCEPT !.state = "HunkZero"],
                                 line, None, TRUE)
    IN IF f.res # "ok" THEN f ELSE paint_and_emit_buffered_lines(f)

\* _ => ...
context_arm(p, line) ==
    LET f == paint_and_emit_buffered_lines(p)
    IN IF f.res # "ok" THEN f
       ELSE paint_and_emit_text([f EXCEPT !.state = "HunkZero"],
                                line, None, TRUE)

\* match line.chars().next() { ... }; continue
hunk_line(p, line) ==
    IF line # <<>> /\ line[1] = Ch("-") THEN minus_arm(p, line)
    ELSE IF line # <<>> /\ line[1] = Ch("+") THEN plus_arm(p, line)
    ELSE context_arm(p, line)

\* the diff branch resolving the syntax before it flushes
diff_arm_resolve_first(p, line) ==
    LET q == [p EXCEPT !.syntax = resolve_syntax(line)]
        f == paint_and_emit_buffered_lines(q)
    IN IF f.res # "ok" THEN f ELSE [f EXCEPT !.state = "DiffMeta"]

\* line.starts_with("diff --")
diff_arm(p, line) ==
    LET f == paint_and_emit_buffered_lines(p)
    IN IF f.res # "ok" THEN f
       ELSE [f EXCEPT !.state = "DiffMeta", !.syntax = resolve_syntax(line)]

\* the commit branch without its flush
commit_arm_no_flush(p) == [p EXCEPT !.state = "Commit"]

\* line.starts_with("commit")
commit_arm(p) ==
    LET f == paint_and_emit_buffered_lines(p)
    IN IF f.res # "ok" THEN f ELSE [f EXCEPT !.state = "Commit"]

\* the hunk-header branch flushing as the diff and commit branches do
hunk_meta_arm_flushing(p) ==
    LET f == paint_and_emit_buffered_lines(p)
    IN IF f.res # "ok" THEN f ELSE [f EXCEPT !.state = "HunkMeta"]

\* line.starts_with("@@")
hunk_meta_arm(p) == [p EXCEPT !.state = "HunkMeta"]

\* the condition without the test of painter.syntax
in_hunk(p) == p.state \in HunkStates

\* the condition without the test of the state
with_syntax(p) == p.syntax # NoSyntax

\* the condition taking the lines after a diff-start line for hunk content
in_hunk_or_diff_meta_with_syntax(p) ==
    p.state \in HunkStates \cup {"DiffMeta"} /\ p.syntax # NoSyntax

\* the condition of the fourth branch
in_hunk_with_syntax(p) == p.state \in HunkStates /\ p.syntax # NoSyntax

\* one iteration of the loop over the input lines
delta_line(p, raw_line) ==
    LET line == strip_ansi_codes(raw_line)
    IN IF starts_with(line, DiffPrefix)
       THEN emit_raw(diff_arm(p, line), raw_line)
       ELSE IF starts_with(line, CommitPrefix)
       THEN emit_raw(commit_arm(p), raw_line)
       ELSE IF starts_with(line, HunkPrefix)
       THEN emit_raw(hunk_meta_arm(p), raw_line)
       ELSE IF in_hunk_with_syntax(p)
       THEN hunk_line(p, line)
       ELSE emit_raw(p, raw_line)

\* ---------------------------------------------------------------- inputs
DiffPy == DiffPrefix \o Str(<<"x", ".", "p", "y">>)

DiffUnknownExt == DiffPrefix \o Str(<<"x", ".", "z">>)

CommitLine == CommitPrefix \o Str(<<" ", "1">>)

HunkHeader == HunkPrefix \o Str(<<" ", "1">>)

MinusLine == Str(<<"-", "a">>)

\* an added line that arrives already coloured
PlusLine == <<AnsiIn>> \o Str(<<"+", "b">>) \o <<AnsiIn>>

ContextLine == Str(<<" ", "c">>)

EmptyLine == <<>>

InputLines ==
    {DiffPy, DiffUnknownExt, CommitLine, HunkHeader, MinusLine,
     PlusLine, ContextLine, EmptyLine}

\* a step does at most three writes: two of a flush and one of the line
MaxWritesPerStep == 3

\* ---------------------------------------------------------------- configuration
LIGHT_THEMES == {"GitHub", "Monokai Extended Light", "OneHalfLight", "ansi-light"}

\* the names theme_set.themes has an entry for
ThemeSetNames == LIGHT_THEMES \cup {"Monokai Extended", "OneHalfDark"}

NoString == [some |-> FALSE, val |-> <<>>]

SomeString(s) == [some |-> TRUE, val |-> s]

HexChars ==
    <<"0", "1", "2", "3", "4", "5", "6", "7", "8", "9",
      "a", "b", "c", "d", "e", "f">>

IsHex(c) == \E i \in 1..Len(HexChars) : HexChars[i] = c

\* char::to_digit(16)
to_digit(c) == (CHOOSE i \in 1..Len(HexChars) : HexChars[i] = c) - 1

\* Color::from_str(s).ok(): '#' and then 3, 6 or 8 hexadecimal digits
color_from_str(s) ==
    IF s = <<>> \/ s[1] # "#" THEN None
    ELSE LET cs == Tail(s)
         IN IF \E i \in 1..Len(cs) : ~IsHex(cs[i]) THEN None
            ELSE LET d == [i \in 1..Len(cs) |-> to_digit(cs[i])]
                 IN IF Len(d) = 3
                    THEN Some([r |-> d[1], g |-> d[2], b |-> d[3], a |-> 255])
                    ELSE IF Len(d) = 6
                    THEN Some([r |-> d[1] * 16 + d[2], g |-> d[3] * 16 + d[4],
                               b |-> d[5] * 16 + d[6], a |-> 255])
                    ELSE IF Len(d) = 8
                    THEN Some([r |-> d[1] * 16 + d[2], g |-> d[3] * 16 + d[4],
                               b |-> d[5] * 16 + d[6], a |-> d[7] * 16 + d[8]])
                    ELSE None

\* let theme_name = match theme { ... }
theme_name_of(req) ==
    IF req.theme.some THEN req.theme.val
    ELSE IF req.user_requests_theme_for_light_terminal_background
    THEN "GitHub"
    ELSE "Monokai Extended"

\* get_config with the palette chosen by the light-background flag
get_config_light_from_flag(req) ==
    LET theme_name == theme_name_of(req)
        minus_color == IF req.minus_color_str.some
                       THEN color_from_str(req.minus_color_str.val) ELSE None
        plus_color == IF req.plus_color_str.some
                      THEN color_from_str(req.plus_color_str.val) ELSE None
        is_light_theme == req.user_requests_theme_for_light_terminal_background
    IN [theme |-> theme_name,
        plus_color |-> IF plus_color.some THEN plus_color.val
                       ELSE IF is_light_theme THEN LIGHT_THEME_PLUS_COLOR
                       ELSE DARK_THEME_PLUS_COLOR,
        minus_color |-> IF minus_color.some THEN minus_color.val
                        ELSE IF is_light_theme THEN LIGHT_THEME_MINUS_COLOR
                        ELSE DARK_THEME_MINUS_COLOR,
        width |-> req.width,
        highlight_removed |-> req.highlight_removed,
        pager |-> "less"]

get_config(req) ==
    LET theme_name == theme_name_of(req)
        minus_color == IF req.minus_color_str.some
                       THEN color_from_str(req.minus_color_str.val) ELSE None
        plus_color == IF req.plus_color_str.some
                      THEN color_from_str(req.plus_color_str.val) ELSE None
        is_light_theme == theme_name \in LIGHT_THEMES
    IN [theme |-> theme_name,
        plus_color |-> IF plus_color.some THEN plus_color.val
                       ELSE IF is_light_theme THEN LIGHT_THEME_PLUS_COLOR
                       ELSE DARK_THEME_PLUS_COLOR,
        minus_color |-> IF minus_color.some THEN minus_color.val
                        ELSE IF is_light_theme THEN LIGHT_THEME_MINUS_COLOR
                        ELSE DARK_THEME_MINUS_COLOR,
        width |-> req.width,
        highlight_removed |-> req.highlight_removed,
        pager |-> "less"]

\* the arguments of get_config
Request(theme, light, plus, minus, hr) ==
    [theme |-> theme,
     user_requests_theme_for_light_terminal_background |-> light,
     plus_color_str |-> plus, minus_color_str |-> minus,
     highlight_removed |-> hr, width |-> 0]

ThemeArgs ==
    {NoString, [some |-> TRUE, val |-> "GitHub"],
     [some |-> TRUE, val |-> "OneHalfLight"],
     [some |-> TRUE, val |-> "Monokai Extended"],
     [some |-> TRUE, val |-> "OneHalfDark"],
     [some |-> TRUE, val |-> "github"]}

ValidColourStr == <<"#", "1", "0", "2", "0", "3", "0">>

ColourArgs ==
    {NoString, SomeString(ValidColourStr), SomeString(<<"r", "e", "d">>),
     SomeString(<<"#", "1", "0", "2", "0">>)}

Requests ==
    {Request(t, l, pc, mc, hr) :
        t \in ThemeArgs, l \in BOOLEAN, pc \in ColourArgs,
        mc \in ColourArgs, hr \in BOOLEAN}

\* the requests the runs of the filter are started with
RunRequests ==
    {Request(NoString, FALSE, NoString, NoString, hr) : hr \in BOOLEAN}

\* ---------------------------------------------------------------- machine
Painter(fuel) ==
    [state |-> state, syntax |-> syntax, minus_lines |-> minus_lines,
     plus_lines |-> plus_lines, output_buffer |-> output_buffer,
     sink |-> sink, attempts |-> attempts, config |-> config,
     res |-> "ok", fuel |-> fuel]

Store(p, done) ==
    /\ state' = p.state
    /\ syntax' = p.syntax
    /\ minus_lines' = p.minus_lines
    /\ plus_lines' = p.plus_lines
    /\ output_buffer' = p.output_buffer
    /\ sink' = p.sink
    /\ attempts' = p.attempts
    /\ status' = IF p.res = "ok" THEN (IF done THEN "done" ELSE "running")
                 ELSE p.res

Init ==
    /\ state = "Unknown"
    /\ syntax = NoSyntax
    /\ minus_lines = <<>>
    /\ plus_lines = <<>>
    /\ output_buffer = <<>>
    /\ sink = <<>>
    /\ attempts = 0
    /\ consumed = <<>>
    /\ status = "running"
    /\ request \in RunRequests
    /\ config = get_config(request)

\* the loop body on the next line of the input; the sink accepts every write
\* of the step (fuel = MaxWritesPerStep) or accepts the first fuel writes and
\* fails the next one the step attempts
ProcessLine ==
    /\ status = "running"
    /\ Len(consumed) < MaxLines
    /\ \E raw_line \in InputLines, fuel \in 0..MaxWritesPerStep :
          LET p == delta_line(Painter(fuel), raw_line)
          IN /\ fuel = MaxWritesPerStep \/ p.res = "io_error"
             /\ consumed' = Append(consumed, raw_line)
             /\ Store(p, FALSE)
    /\ UNCHANGED <<config, request>>

\* the input ends: the final flush, then Ok(())
EndOfInput ==
    /\ status = "running"
    /\ \E fuel \in 0..MaxWritesPerStep :
          LET p == paint_and_emit_buffered_lines(Painter(fuel))
          IN /\ fuel = MaxWritesPerStep \/ p.res = "io_error"
             /\ Store(p, TRUE)
    /\ UNCHANGED <<consumed, config, request>>

Next == ProcessLine \/ EndOfInput

Spec == Init /\ [][Next]_vars

TypeOK ==
    /\ state \in States
    /\ status \in {"config", "resolved", "running", "done", "io_error", "panic"}
    /\ Len(consumed) <= MaxLines

\* ---------------------------------------------------------------- resolving a configuration
Unresolved ==
    [theme |-> "", plus_color |-> None.val, minus_color |-> None.val,
     width |-> 0, highlight_removed |-> FALSE, pager |-> ""]

InitConfig ==
    /\ state = "Unknown"
    /\ syntax = NoSyntax
    /\ minus_lines = <<>>
    /\ plus_lines = <<>>
    /\ output_buffer = <<>>
    /\ sink = <<>>
    /\ attempts = 0
    /\ consumed = <<>>
    /\ status = "config"
    /\ request \in Requests
    /\ config = Unresolved

\* the call of get_config; &theme_set.themes[theme_name] panics on a name
\* the theme set has no entry for
GetConfig ==
    /\ status = "config"
    /\ IF theme_name_of(request) \in ThemeSetNames
       THEN /\ config' = get_config(request)
            /\ status' = "resolved"
       ELSE /\ config' = config
            /\ status' = "panic"
    /\ UNCHANGED <<state, syntax, minus_lines, plus_lines, output_buffer,
                   sink, attempts, consumed, request>>

NextConfig == GetConfig

SpecConfig == InitConfig /\ [][NextConfig]_vars

\* ---------------------------------------------------------------- reading a step
Last(s) == s[Len(s)]

IsPrefix(s, t) == Len(s) <= Len(t) /\ SubSeq(t, 1, Len(s)) = s

\* a step of the loop body: it took one more line of the input
LineStep == Len(consumed') = Len(consumed) + 1

RawLine == Last(consumed')

Line == strip_ansi_codes(RawLine)

IsMarker(l) ==
    \/ starts_with(l, DiffPrefix)
    \/ starts_with(l, CommitPrefix)
    \/ starts_with(l, HunkPrefix)

FirstIs(l, c) == l # <<>> /\ l[1] = Ch(c)

\* the line of this step is hunk content
HunkContentStep ==
    /\ LineStep
    /\ ~IsMarker(Line)
    /\ state \in HunkStates
    /\ syntax # NoSyntax

Count(s, kind) == Len(SelectSeq(s, LAMBDA t : t.k = kind))

NumLines(text) ==
    IF text = <<>> THEN 0
    ELSE Len(SelectSeq(text, LAMBDA t : t = NL))
         + (IF Last(text) = NL THEN 0 ELSE 1)

Rgb(color) == <<color.r, color.g, color.b>>

\* w is text as the painter writes it: the characters of text in order, one
\* background escape of colour bg at the start of each line when bg is given,
\* and a foreground escape before each character exactly when hl is set
Painted(w, text, bg, hl) ==
    /\ strip_ansi_codes(w) = text
    /\ Count(w, "esc") = 0
    /\ Count(w, "bg") = IF bg.some THEN NumLines(text) ELSE 0
    /\ Count(w, "fg") = IF hl THEN Len(text) ELSE 0
    /\ \A i \in 1..Len(w) :
          /\ w[i].k = "bg" => /\ w[i].rgb = Rgb(bg.val)
                              /\ i = 1 \/ w[i - 1] = NL
          /\ (hl /\ w[i].k = "ch") => i > 1 /\ w[i - 1].k = "fg"

\* the writes a step added to the sink
NewWrites == SubSeq(sink', Len(sink) + 1, Len(sink'))

\* the step emptied a buffer (a flush event)
FlushStep ==
    \/ ~IsPrefix(minus_lines, minus_lines')
    \/ ~IsPrefix(plus_lines, plus_lines')

\* w1, w2 are the two writes of a flush of the buffers as they were
FlushWrites(w1, w2) ==
    /\ Painted(w1, join(minus_lines), Some(config.minus_color),
               config.highlight_removed)
    /\ Painted(w2, join(plus_lines), Some(config.plus_color), TRUE)

\* ---------------------------------------------------------------- C1
C1_Step ==
    /\ (/\ HunkContentStep
        /\ \/ state = "HunkMinus" /\ (FirstIs(Line, "-") \/ FirstIs(Line, "+"))
           \/ state = "HunkPlus" /\ FirstIs(Line, "+"))
       => /\ sink' = sink
          /\ attempts' = attempts
          /\ \/ minus_lines' = Append(minus_lines, Line)
                /\ plus_lines' = plus_lines
             \/ plus_lines' = Append(plus_lines, Line)
                /\ minus_lines' = minus_lines
    /\ (/\ minus_lines # <<>>
        /\ plus_lines # <<>>
        /\ FlushStep
        /\ status' \in {"running", "done"})
       => /\ IsPrefix(sink, sink')
          /\ Len(NewWrites) >= 2
          /\ FlushWrites(NewWrites[1], NewWrites[2])
          /\ plus_lines' = <<>>
          /\ minus_lines' \in {<<>>, <<Line>>}

\* C1: under an active syntax, inside a hunk, no line of a '-' run followed
\* by a '+' run causes a write while the pair is being buffered, and when a
\* step that completes without a write error empties the buffers holding
\* both runs, it writes the removed block with the removed background and
\* then, as a second write, the added block with the added background.
C1_PairFlushedTogether == [][C1_Step]_vars

C1_Witness ==
    /\ status = "done"
    /\ Len(consumed) = 4
    /\ consumed[3] = MinusLine
    /\ consumed[4] = PlusLine
    /\ Len(sink) = 4
    /\ Count(sink[3], "bg") = 1
    /\ Count(sink[4], "bg") = 1
    /\ sink[3] # sink[4]

\* ---------------------------------------------------------------- C2
C2_Step ==
    (/\ HunkContentStep
     /\ state = "HunkPlus"
     /\ FirstIs(Line, "-")
     /\ status' = "running")
    => /\ minus_lines' = <<Line>>
       /\ plus_lines' = <<>>
       /\ state' = "HunkMinus"
       /\ IsPrefix(sink, sink')
       /\ Len(NewWrites) = 2
       /\ strip_ansi_codes(NewWrites[1]) = join(minus_lines)
       /\ strip_ansi_codes(NewWrites[2]) = join(plus_lines)
       /\ plus_lines # <<>>

\* C2: a '-' line that arrives under an active syntax in state HunkPlus has
\* the pending buffers written to the sink first; after the step the removed
\* buffer holds exactly that line and the added buffer is empty.
C2_MinusAfterPlusFlushes == [][C2_Step]_vars

C2_Witness ==
    /\ status = "running"
    /\ state = "HunkMinus"
    /\ Len(consumed) = 4
    /\ strip_ansi_codes(consumed[3]) = strip_ansi_codes(PlusLine)
    /\ consumed[4] = MinusLine
    /\ minus_lines = <<MinusLine>>
    /\ plus_lines = <<>>
    /\ Len(sink) = 4

\* ---------------------------------------------------------------- C3
\* C3: whenever a '-' line is appended to the removed-lines buffer, the
\* added-lines buffer is empty.
C3_AddedNeverBeforeRemoved ==
    [][(LineStep /\ minus_lines' # minus_lines /\ minus_lines' # <<>>)
       => plus_lines' = <<>>]_vars

\* ---------------------------------------------------------------- C4
C4_Step ==
    (/\ HunkContentStep
     /\ ~FirstIs(Line, "-")
     /\ ~FirstIs(Line, "+")
     /\ status' = "running")
    => /\ minus_lines' = <<>>
       /\ plus_lines' = <<>>
       /\ state' = "HunkZero"
       /\ IsPrefix(sink, sink')
       /\ Painted(Last(sink'), Line, None, TRUE)
       /\ IF minus_lines = <<>> /\ plus_lines = <<>>
          THEN Len(NewWrites) = 1
          ELSE /\ Len(NewWrites) = 3
               /\ strip_ansi_codes(NewWrites[1]) = join(minus_lines)
               /\ strip_ansi_codes(NewWrites[2]) = join(plus_lines)

\* C4: a context line under an active syntax in a hunk state is never
\* buffered: its step flushes the pending buffers, sets the state to HunkZero
\* and writes the line, with no background escape and with foreground
\* escapes, after everything that was buffered.
C4_ContextLineEmittedAtOnce == [][C4_Step]_vars

C4_Witness ==
    /\ status = "running"
    /\ state = "HunkZero"
    /\ Len(consumed) = 4
    /\ consumed[3] = MinusLine
    /\ consumed[4] = ContextLine
    /\ Len(sink) = 5
    /\ Count(sink[5], "fg") = 2
    /\ Count(sink[5], "bg") = 0

\* ---------------------------------------------------------------- C5
C5_Step ==
    (/\ LineStep
     /\ ~HunkContentStep
     /\ status' = "running")
    => /\ IsPrefix(sink, sink')
       /\ Last(sink') = RawLine
       /\ Len(NewWrites) =
            IF /\ starts_with(Line, DiffPrefix) \/ starts_with(Line, CommitPrefix)
               /\ minus_lines # <<>> \/ plus_lines # <<>>
            THEN 3 ELSE 1

\* C5: a line that is not hunk content (a marker line, or any line outside
\* a hunk state or without an active syntax) is written to the sink in its
\* original, unstripped form in the step that consumes it.
C5_NonHunkLineVerbatim == [][C5_Step]_vars

C5_Witness ==
    /\ status = "running"
    /\ Len(consumed) = 3
    /\ consumed[3] = PlusLine
    /\ syntax # NoSyntax
    /\ state = "DiffMeta"
    /\ Last(sink) = PlusLine
    /\ strip_ansi_codes(PlusLine) # PlusLine

\* ---------------------------------------------------------------- C6
\* the lines of one write, without their terminators
RECURSIVE SplitLines(_)
SplitLines(w) ==
    LET nls == {i \in 1..Len(w) : w[i] = NL}
    IN IF nls = {} THEN <<w>>
       ELSE LET i == CHOOSE j \in nls : \A m \in nls : j <= m
            IN <<SubSeq(w, 1, i - 1)>> \o SplitLines(SubSeq(w, i + 1, Len(w)))

\* the lines the sink holds: every write is a writeln
RECURSIVE OutputLines(_)
OutputLines(ws) ==
    IF ws = <<>> THEN <<>>
    ELSE SplitLines(ws[1]) \o OutputLines(Tail(ws))

\* a line is blank when nothing is left of it once escape codes are removed
NonBlank(ls) == SelectSeq(ls, LAMBDA l : strip_ansi_codes(l) # <<>>)

\* C6 as stated: at the end of a run without write failure, the number of
\* non-blank output lines equals the number of input lines.
C6_Original ==
    status = "done" => Len(NonBlank(OutputLines(sink))) = Len(consumed)

\* C6 (amended): at the end of a run without write failure, the number of
\* non-blank output lines equals the number of non-blank input lines.
C6_NonBlankLinesPreserved ==
    status = "done"
    => Len(NonBlank(OutputLines(sink))) = Len(NonBlank(consumed))

C6_Witness ==
    /\ status = "done"
    /\ Len(consumed) = 5
    /\ consumed[3] = MinusLine
    /\ consumed[4] = MinusLine
    /\ consumed[5] = EmptyLine
    /\ syntax # NoSyntax
    /\ Len(OutputLines(sink)) = 6
    /\ Len(NonBlank(OutputLines(sink))) = 4

\* ---------------------------------------------------------------- C7
StripAll(ls) == [i \in 1..Len(ls) |-> strip_ansi_codes(ls[i])]

\* C7: at the end of a run the output with its escape sequences removed is
\* the stripped input, line for line in the same order.
C7_OutputIsStrippedInput ==
    status = "done" => StripAll(OutputLines(sink)) = StripAll(consumed)

\* ---------------------------------------------------------------- C8
\* C8: the first failed write ends the run: it is the last write attempted,
\* every earlier attempt succeeded, and no step follows the failure.
C8_WriteFailureIsFatal ==
    /\ [](status = "io_error" => attempts = Len(sink) + 1)
    /\ [](status \in {"running", "done"} => attempts = Len(sink))
    /\ [][status # "io_error"]_vars

C8_Witness ==
    /\ status = "io_error"
    /\ Len(consumed) = 5
    /\ minus_lines = <<>>
    /\ plus_lines # <<>>
    /\ attempts = 4
    /\ Len(sink) = 3

\* ---------------------------------------------------------------- C9
\* C9: whenever paint_and_emit_text has returned, with Ok or with an I/O
\* error, output_buffer is empty.
C9_OutputBufferAlwaysTruncated == output_buffer = <<>>

\* ---------------------------------------------------------------- C10
NoKnownExtension(l) ==
    \A e \in KnownExtensions :
        LET suffix == <<Ch(".")>> \o Str(e)
        IN ~(/\ Len(l) >= Len(suffix)
             /\ SubSeq(l, Len(l) - Len(suffix) + 1, Len(l)) = suffix)

C10_Step ==
    /\ (/\ LineStep
        /\ starts_with(Line, DiffPrefix)
        /\ NoKnownExtension(Line)
        /\ status' = "running")
       => syntax' = NoSyntax
    /\ (/\ LineStep
        /\ syntax = NoSyntax
        /\ ~IsMarker(Line))
       => /\ UNCHANGED <<state, syntax, minus_lines, plus_lines, output_buffer>>
          /\ minus_lines = <<>>
          /\ plus_lines = <<>>
          /\ attempts' = attempts + 1
          /\ \/ status' = "running" /\ sink' = Append(sink, RawLine)
             \/ status' = "io_error" /\ sink' = sink

\* C10: a diff-start line without a known extension leaves no active syntax,
\* and while there is none every line without a marker prefix, '-' and '+'
\* lines included, is written in its original form and is neither buffered
\* nor painted; the only failure is that of the write itself.
C10_NoSyntaxPassesThrough == [][C10_Step]_vars

C10_Witness ==
    /\ status = "running"
    /\ consumed = <<DiffPy, DiffUnknownExt, HunkHeader, MinusLine, PlusLine>>
    /\ sink = consumed
    /\ state = "HunkMeta"
    /\ syntax = NoSyntax
    /\ minus_lines = <<>>
    /\ plus_lines = <<>>

\* ---------------------------------------------------------------- C11
\* C11: whenever a pending buffer is non-empty the state is one of HunkMeta,
\* HunkZero, HunkMinus, HunkPlus; in Commit, DiffMeta and Unknown both
\* buffers are empty.
C11_BuffersOnlyInHunkStates ==
    (minus_lines # <<>> \/ plus_lines # <<>>) => state \in HunkStates

C11_Witness ==
    /\ status = "running"
    /\ state = "Commit"
    /\ Len(consumed) = 4
    /\ consumed[3] = MinusLine
    /\ consumed[4] = CommitLine
    /\ minus_lines = <<>>
    /\ plus_lines = <<>>
    /\ Len(sink) = 5

\* ---------------------------------------------------------------- C12
Occurrences(ls, l) == Len(SelectSeq(ls, LAMBDA x : x = l))

\* C12: when a run without write failure ends, the removed-lines buffer, the
\* added-lines buffer and the output buffer are empty and every input line,
\* the buffered ones included, is in the output as often as it was read.
C12_EmptyAtEnd ==
    status = "done"
    => /\ minus_lines = <<>>
       /\ plus_lines = <<>>
       /\ output_buffer = <<>>
       /\ \A i \in 1..Len(consumed) :
             LET l == strip_ansi_codes(consumed[i])
             IN l # <<>> =>
                Occurrences(StripAll(OutputLines(sink)), l)
                    = Occurrences(StripAll(consumed), l)

C12_Witness ==
    /\ status = "done"
    /\ state = "HunkPlus"
    /\ Len(consumed) = 5
    /\ consumed[3] = MinusLine
    /\ strip_ansi_codes(consumed[4]) = strip_ansi_codes(PlusLine)
    /\ consumed[5] = consumed[4]
    /\ Len(sink) = 4
    /\ Len(OutputLines(sink)) = 5

\* ---------------------------------------------------------------- C13
ExpectedColour(arg, req, light, dark) ==
    IF arg = SomeString(<<"#", "1", "0", "2", "0", "3", "0">>)
    THEN [r |-> 16, g |-> 32, b |-> 48, a |-> 255]
    ELSE IF (IF req.theme.some THEN req.theme.val
             ELSE IF req.user_requests_theme_for_light_terminal_background
             THEN "GitHub" ELSE "Monokai Extended")
            \in {"GitHub", "Monokai Extended Light", "OneHalfLight", "ansi-light"}
    THEN light
    ELSE dark

\* C13: get_config never fails on a colour string; each background colour is
\* the override when it parses as a colour, and otherwise the palette colour
\* chosen by membership of the resolved theme name in the light-theme set.
C13_ColoursResolved ==
    /\ status = "resolved"
       => /\ config.minus_color =
                ExpectedColour(request.minus_color_str, request,
                               [r |-> 255, g |-> 208, b |-> 208, a |-> 255],
                               [r |-> 63, g |-> 0, b |-> 1, a |-> 255])
          /\ config.plus_color =
                ExpectedColour(request.plus_color_str, request,
                               [r |-> 208, g |-> 255, b |-> 208, a |-> 255],
                               [r |-> 1, g |-> 59, b |-> 1, a |-> 255])
    /\ status = "panic" => request.theme = [some |-> TRUE, val |-> "github"]

C13_Witness ==
    /\ status = "resolved"
    /\ request.minus_color_str = SomeString(<<"r", "e", "d">>)
    /\ request.theme = [some |-> TRUE, val |-> "Monokai Extended"]
    /\ request.user_requests_theme_for_light_terminal_background
    /\ config.minus_color = [r |-> 63, g |-> 0, b |-> 1, a |-> 255]
    /\ config.plus_color = [r |-> 16, g |-> 32, b |-> 48, a |-> 255]

\* ---------------------------------------------------------------- C14
C14_Step ==
    (LineStep /\ starts_with(Line, HunkPrefix))
    => /\ UNCHANGED <<minus_lines, plus_lines, syntax, output_buffer>>
       /\ state' = "HunkMeta"
       /\ attempts' = attempts + 1
       /\ \/ status' = "running" /\ sink' = Append(sink, RawLine)
          \/ status' = "io_error" /\ sink' = sink

C15_FlushBeforeEmit ==
    [][(/\ LineStep
        /\ state \in {"HunkMinus", "HunkPlus"}
        /\ state' \in {"Commit", "DiffMeta", "HunkMeta", "HunkZero"}
        /\ status' = "running")
       => /\ minus_lines' = <<>>
          /\ plus_lines' = <<>>
          /\ Len(NewWrites) = 3
          /\ strip_ansi_codes(NewWrites[1]) = join(minus_lines)
          /\ strip_ansi_codes(NewWrites[2]) = join(plus_lines)]_vars

\* ---------------------------------------------------------------- C16
NamedStates ==
    {"Commit", "DiffMeta", "HunkMeta", "HunkZero", "HunkMinus", "HunkPlus"}

\* the entries of the transition table in the source
TableTransitions ==
    ({"Commit"} \X {"Commit", "DiffMeta"})
    \cup ({"DiffMeta"} \X {"DiffMeta", "HunkMeta"})
    \cup ({"HunkMeta"} \X {"HunkZero", "HunkMinus", "HunkPlus"})
    \cup ({"HunkZero"} \X {"Commit", "HunkMeta", "HunkZero", "HunkMinus", "HunkPlus"})
    \cup ({"HunkMinus", "HunkPlus"} \X NamedStates)

ActualTransitions ==
    ({"Commit", "DiffMeta"} \X {"Commit", "DiffMeta", "HunkMeta"})
    \cup (HunkStates \X NamedStates)

FlushOutcome(ws) ==
    IF minus_lines = <<>> /\ plus_lines = <<>>
    THEN ws = <<>>
    ELSE /\ Len(ws) = 2
         /\ FlushWrites(ws[1], ws[2])
         /\ minus_lines = <<>> => ws[1] = <<>>
         /\ plus_lines = <<>> => ws[2] = <<>>

C17_Step ==
    /\ (status = "running" /\ status' = "done")
       => /\ IsPrefix(sink, sink')
          /\ FlushOutcome(NewWrites)
          /\ attempts' = attempts + Len(NewWrites)
          /\ minus_lines' = <<>>
          /\ plus_lines' = <<>>
          /\ UNCHANGED <<state, syntax, output_buffer>>
    /\ (/\ LineStep
        /\ starts_with(Line, DiffPrefix) \/ starts_with(Line, CommitPrefix)
        /\ status' = "running")
       => /\ IsPrefix(sink, sink')
          /\ NewWrites # <<>>
          /\ FlushOutcome(SubSeq(NewWrites, 1, Len(NewWrites) - 1))
          /\ minus_lines' = <<>>
          /\ plus_lines' = <<>>

\* C17: a flush writes nothing and changes nothing when both buffers are
\* empty; otherwise it does exactly two writes, the removed block (removed
\* background, foreground escapes only with highlight_removed) and then the
\* added block (added background, foreground escapes), and clears both
\* buffers; the write for an empty buffer is an empty line.
C17_FlushWritesTwiceOrNever == [][C17_Step]_vars

C17_Witness ==
    /\ status = "done"
    /\ ~config.highlight_removed
    /\ Len(consumed) = 4
    /\ consumed[3] = MinusLine
    /\ consumed[4] = MinusLine
    /\ Len(sink) = 4
    /\ Count(sink[3], "bg") = 2
    /\ Count(sink[3], "fg") = 0
    /\ sink[4] = <<>>

\* ---------------------------------------------------------------- C18
C18_Step ==
    /\ (/\ LineStep
        /\ \/ minus_lines' # <<>> /\ minus_lines' # minus_lines
           \/ plus_lines' # <<>> /\ plus_lines' # plus_lines)
       => /\ state \in {"HunkMeta", "HunkZero", "HunkMinus", "HunkPlus"}
          /\ syntax # NoSyntax
          /\ ~IsMarker(Line)
          /\ FirstIs(Line, "-") \/ FirstIs(Line, "+")
    /\ (/\ LineStep
        /\ state \in {"Commit", "DiffMeta", "Unknown"}
        /\ FirstIs(Line, "-") \/ FirstIs(Line, "+"))
       => /\ UNCHANGED <<state, syntax, minus_lines, plus_lines, output_buffer>>
          /\ \/ status' = "running" /\ sink' = Append(sink, RawLine)
             \/ status' = "io_error" /\ sink' = sink

\* C18: a '-' or '+' line enters a buffer only in a hunk state, with an
\* active syntax; in Commit, DiffMeta or Unknown it leaves buffers and state
\* as they are and is written unchanged.
C18_BufferedOnlyInHunk == [][C18_Step]_vars

C18_Witness ==
    /\ status = "running"
    /\ state = "DiffMeta"
    /\ syntax # NoSyntax
    /\ consumed = <<DiffPy, MinusLine, PlusLine>>
    /\ sink = consumed
    /\ minus_lines = <<>>
    /\ plus_lines = <<>>

\* ---------------------------------------------------------------- C19
\* C19: the painter is never asked to paint without an active syntax: the
\* unwrap never panics, and whenever a pending buffer is non-empty an active
\* syntax is set.
C19_PaintOnlyWithSyntax ==
    /\ status # "panic"
    /\ (minus_lines # <<>> \/ plus_lines # <<>>) => syntax # NoSyntax

C19_Witness ==
    /\ status = "running"
    /\ syntax = NoSyntax
    /\ state = "DiffMeta"
    /\ Len(consumed) = 4
    /\ consumed[3] = MinusLine
    /\ consumed[4] = DiffUnknownExt
    /\ Len(sink) = 5
    /\ Count(sink[3], "bg") = 1

\* ---------------------------------------------------------------- C20
\* C20: between two input lines, state HunkMinus implies a non-empty
\* removed-lines buffer, state HunkPlus a non-empty added-lines buffer, and
\* state HunkZero that both buffers are empty.
C20_StateDeterminesBuffers ==
    status = "running"
    => /\ state = "HunkMinus" => minus_lines # <<>>
       /\ state = "HunkPlus" => plus_lines # <<>>
       /\ state = "HunkZero" => minus_lines = <<>> /\ plus_lines = <<>>

C20_Witness ==
    /\ status = "running"
    /\ state = "HunkZero"
    /\ Len(consumed) = 5
    /\ consumed[3] = MinusLine
    /\ strip_ansi_codes(consumed[4]) = strip_ansi_codes(PlusLine)
    /\ consumed[5] = ContextLine
    /\ minus_lines = <<>>
    /\ plus_lines = <<>>
    /\ Len(sink) = 5

====
